---------------------------- MODULE Spec2Model ----------------------------
(***************************************************************************)
(* AeonVault: the encrypted credential vault of src/storage.py.            *)
(*                                                                         *)
(* Python str values are sequences of code points, bytes values are        *)
(* sequences of 0..255.  The library calls the code makes (base64, UTF-8,  *)
(* PBKDF2, AES-GCM, SHA-256, sqlite3) are modelled by operators that       *)
(* compute on these sequences.  PBKDF2, SHA-256 and the GCM key stream and *)
(* tag are stand-ins built on a polynomial hash over the prime field       *)
(* Z/1000081 (GHASH is a polynomial hash as well): they are deterministic,   *)
(* depend on every input byte and keep the output lengths of the real      *)
(* primitives.                                                             *)
(***************************************************************************)
EXTENDS Integers, Sequences, FiniteSets, TLC

(***************************************************************************)
(* Sequence helpers.                                                       *)
(***************************************************************************)
\* s[from-1 : to] of Python, for 1 <= from and to <= Len(s)
Slice(s, from, to) == IF to < from THEN << >> ELSE SubSeq(s, from, to)

Min(a, b) == IF a < b THEN a ELSE b

RECURSIVE Flatten(_)
Flatten(ss) == IF ss = << >> THEN << >> ELSE Head(ss) \o Flatten(Tail(ss))

\* Variant: the loop's except clause catches nothing.
catches_nothing(r) == FALSE

(***************************************************************************)
(* Outcomes of a call: a returned value, a returned None, or a raised      *)
(* exception.  exc is the Python exception class; binascii.Error and       *)
(* UnicodeDecodeError are subclasses of ValueError.                        *)
(***************************************************************************)
Return(v) == [kind |-> "return", exc |-> "", val |-> v]
ReturnNone == [kind |-> "none", exc |-> "", val |-> << >>]
Raise(e) == [kind |-> "raise", exc |-> e, val |-> << >>]

IsValueError(r) ==
    r.kind = "raise" /\ r.exc \in {"ValueError", "binascii.Error", "UnicodeDecodeError"}

(***************************************************************************)
(* str.encode() and bytes.decode(): UTF-8, for code points below 0x10000   *)
(* that are not surrogates.                                                *)
(***************************************************************************)
Utf8Char(cp) ==
    IF cp < 128 THEN <<cp>>
    ELSE IF cp < 2048 THEN <<192 + (cp \div 64), 128 + (cp % 64)>>
    ELSE <<224 + (cp \div 4096), 128 + ((cp \div 64) % 64), 128 + (cp % 64)>>

\* An ASCII string encodes to its own codes; the general case goes char by char.
str_encode(s) ==
    IF \A i \in 1..Len(s) : s[i] < 128 THEN SubSeq(s, 1, Len(s))
    ELSE Flatten([i \in 1..Len(s) |-> Utf8Char(s[i])])

IsCont(b) == b >= 128 /\ b < 192

RECURSIVE Utf8Decode(_)
Utf8Decode(b) ==
    IF b = << >> THEN Return(<< >>)
    ELSE LET b1 == b[1]
             n  == IF b1 < 128 THEN 1
                   ELSE IF b1 >= 194 /\ b1 < 224 THEN 2
                   ELSE IF b1 >= 224 /\ b1 < 240 THEN 3
                   ELSE 0
         IN IF n = 0 \/ Len(b) < n THEN Raise("UnicodeDecodeError")
            ELSE IF \E i \in 2..n : ~IsCont(b[i]) THEN Raise("UnicodeDecodeError")
            ELSE LET cp == IF n = 1 THEN b1
                           ELSE IF n = 2 THEN (b1 - 192) * 64 + (b[2] - 128)
                           ELSE (b1 - 224) * 4096 + (b[2] - 128) * 64 + (b[3] - 128)
                     rest == Utf8Decode(Slice(b, n + 1, Len(b)))
                 IN IF n = 3 /\ (cp < 2048 \/ (cp >= 55296 /\ cp < 57344))
                    THEN Raise("UnicodeDecodeError")
                    ELSE IF rest.kind = "raise" THEN rest
                    ELSE Return(<<cp>> \o rest.val)

\* ASCII bytes decode to their own codes; the general case goes char by char.
bytes_decode(b) ==
    IF \A i \in 1..Len(b) : b[i] < 128 THEN Return(SubSeq(b, 1, Len(b)))
    ELSE Utf8Decode(b)

(***************************************************************************)
(* base64.b64encode and base64.b64decode (validate=False, as the code      *)
(* calls it): the standard alphabet as ASCII codes.                        *)
(***************************************************************************)
PadChar == 61

B64Char(v) ==
    IF v < 26 THEN 65 + v
    ELSE IF v < 52 THEN 97 + (v - 26)
    ELSE IF v < 62 THEN 48 + (v - 52)
    ELSE IF v = 62 THEN 43
    ELSE 47

\* table_a2b_base64: the 6-bit value of a byte, 64 for a byte outside the alphabet.
B64Value(c) ==
    IF c >= 65 /\ c <= 90 THEN c - 65
    ELSE IF c >= 97 /\ c <= 122 THEN c - 97 + 26
    ELSE IF c >= 48 /\ c <= 57 THEN c - 48 + 52
    ELSE IF c = 43 THEN 62
    ELSE IF c = 47 THEN 63
    ELSE 64

B64Group(g) ==
    LET n  == Len(g)
        b1 == g[1]
        b2 == IF n >= 2 THEN g[2] ELSE 0
        b3 == IF n >= 3 THEN g[3] ELSE 0
    IN << B64Char(b1 \div 4),
          B64Char((b1 % 4) * 16 + (b2 \div 16)),
          IF n >= 2 THEN B64Char((b2 % 16) * 4 + (b3 \div 64)) ELSE PadChar,
          IF n >= 3 THEN B64Char(b3 % 64) ELSE PadChar >>

b64encode(data) ==
    Flatten([k \in 1..((Len(data) + 2) \div 3) |->
                B64Group(Slice(data, 3 * k - 2, Min(3 * k, Len(data))))])

\* binascii.a2b_base64 in non-strict mode, one input byte at a time: bytes
\* outside the alphabet are skipped, a complete pad sequence ends the parse
\* (done), bits left over at the end are dropped.
A2bInit == [quad_pos |-> 0, leftchar |-> 0, pads |-> 0, acc |-> << >>, done |-> FALSE]

A2bNext(st, c) ==
    LET v == B64Value(c)
    IN IF st.done THEN st
       ELSE IF c = PadChar
       THEN IF st.quad_pos >= 2 /\ st.quad_pos + st.pads + 1 >= 4
            THEN [st EXCEPT !.done = TRUE]
            ELSE IF st.quad_pos >= 2 THEN [st EXCEPT !.pads = st.pads + 1] ELSE st
       ELSE IF v >= 64 THEN st
       ELSE IF st.quad_pos = 0
       THEN [st EXCEPT !.quad_pos = 1, !.leftchar = v, !.pads = 0]
       ELSE IF st.quad_pos = 1
       THEN [st EXCEPT !.quad_pos = 2, !.leftchar = v % 16, !.pads = 0,
                       !.acc = Append(st.acc, st.leftchar * 4 + (v \div 16))]
       ELSE IF st.quad_pos = 2
       THEN [st EXCEPT !.quad_pos = 3, !.leftchar = v % 4, !.pads = 0,
                       !.acc = Append(st.acc, st.leftchar * 16 + (v \div 4))]
       ELSE [st EXCEPT !.quad_pos = 0, !.leftchar = 0, !.pads = 0,
                       !.acc = Append(st.acc, st.leftchar * 64 + v)]

\* The decoder's state after bytes i..Len(s) of s, from state st.
RECURSIVE A2bRun(_, _, _)
A2bRun(s, i, st) ==
    IF st.done \/ i > Len(s) THEN st ELSE A2bRun(s, i + 1, A2bNext(st, s[i]))

b64decode(s) ==
    LET st == A2bRun(s, 1, A2bInit)
    IN IF ~st.done /\ st.quad_pos # 0 THEN Raise("binascii.Error")
       ELSE Return(st.acc)


(***************************************************************************)
(* Stand-ins for the cryptographic primitives.  PolyHash is a polynomial   *)
(* hash over Z/1000081 in base 257: two inputs of one length that differ in  *)
(* one byte, or in two adjacent bytes, hash differently.  Expand writes a  *)
(* hash value into n bytes, the first three holding the value itself.      *)
(***************************************************************************)
RECURSIVE PolyFold(_, _, _)
PolyFold(bytes, i, h) ==
    \* h >= 0 always: the test makes TLC evaluate h at each step
    IF h < 0 \/ i > Len(bytes) THEN h
    ELSE IF i + 3 <= Len(bytes)
    THEN \* four steps at once
         LET h1 == (h * 257 + bytes[i] + 1) % 1000081
             h2 == (h1 * 257 + bytes[i + 1] + 1) % 1000081
             h3 == (h2 * 257 + bytes[i + 2] + 1) % 1000081
         IN PolyFold(bytes, i + 4, (h3 * 257 + bytes[i + 3] + 1) % 1000081)
    ELSE PolyFold(bytes, i + 1, (h * 257 + bytes[i] + 1) % 1000081)

PolyHash(bytes, h) == PolyFold(bytes, 1, h)

Expand(h, n) ==
    [i \in 1..n |-> IF i = 1 THEN h % 256
                    ELSE IF i = 2 THEN (h \div 256) % 256
                    ELSE IF i = 3 THEN h \div 65536
                    ELSE (h * i + i) % 256]

SaltLen == 16
KeyLen == 32
NonceLen == 16
TagLen == 16
DigestHexLen == 64

\* Variant: the salt does not enter the derivation.
PBKDF2_unsalted(password, salt, dkLen) ==
    Expand(PolyHash(<<1>> \o password, 0), dkLen)

\* Crypto.Protocol.KDF.PBKDF2(password, salt, dkLen=32, count=100000)
PBKDF2(password, salt, dkLen) ==
    Expand(PolyHash(<<1>> \o password \o <<0>> \o salt, 0), dkLen)

\* hashlib.sha256(data).hexdigest(): 64 lower-case hexadecimal digits
HexDigit(v) == IF v < 10 THEN 48 + v ELSE 97 + (v - 10)

sha256_hexdigest(data) ==
    LET h == PolyHash(<<2>> \o data, 0)
    IN [i \in 1..DigestHexLen |->
           HexDigit(IF i <= 5 THEN (h \div (IF i = 1 THEN 1 ELSE IF i = 2 THEN 16
                                            ELSE IF i = 3 THEN 256
                                            ELSE IF i = 4 THEN 4096 ELSE 65536)) % 16
                    ELSE (h + i) % 16)]

\* The first n bytes of the GCM key stream (CTR mode), and the GCM tag over
\* nonce and ciphertext.
KeyStream(key, nonce, n) ==
    IF n = 0 THEN << >>
    ELSE LET base == PolyHash(<<3>> \o key \o nonce, 0)
         IN IF base >= 0 THEN [i \in 1..n |-> (base + 7 * i) % 256] ELSE << >>

GcmTag(key, nonce, ciphertext) ==
    Expand(PolyHash(<<4>> \o key \o nonce \o ciphertext, 0), TagLen)

\* cipher.encrypt_and_digest(plaintext) of AES.new(key, AES.MODE_GCM) whose
\* random nonce is `nonce`
encrypt_and_digest(key, nonce, plaintext) ==
    LET stream == KeyStream(key, nonce, Len(plaintext))
        ciphertext == IF stream = << >> THEN << >>
                      ELSE [i \in 1..Len(plaintext) |-> (plaintext[i] + stream[i]) % 256]
    IN [ciphertext |-> ciphertext, tag |-> GcmTag(key, nonce, ciphertext)]

\* Variant: cipher.decrypt(ciphertext) in place of decrypt_and_verify, the tag
\* is not looked at.
decrypt_unverified(key, nonce, ciphertext, tag) ==
    IF nonce = << >> THEN Raise("ValueError")
    ELSE LET stream == KeyStream(key, nonce, Len(ciphertext))
         IN IF stream = << >> THEN Return(<< >>)
            ELSE Return([i \in 1..Len(ciphertext) |->
                           (ciphertext[i] + 256 - stream[i]) % 256])

\* AES.new(key, AES.MODE_GCM, nonce=nonce).decrypt_and_verify(ciphertext, tag):
\* ValueError for an empty nonce and for a tag that does not verify.
decrypt_and_verify(key, nonce, ciphertext, tag) ==
    IF nonce = << >> THEN Raise("ValueError")
    ELSE IF tag # GcmTag(key, nonce, ciphertext) THEN Raise("ValueError")
    ELSE LET stream == KeyStream(key, nonce, Len(ciphertext))
         IN IF stream = << >> THEN Return(<< >>)
            ELSE Return([i \in 1..Len(ciphertext) |->
                           (ciphertext[i] + 256 - stream[i]) % 256])

(***************************************************************************)
(* class AESEncryptor.  An optional bytes argument is [given, bytes]; an   *)
(* encryptor is [salt, key].  The random draws (get_random_bytes, the GCM  *)
(* nonce) are parameters, chosen by the caller's action.                   *)
(***************************************************************************)
NoSalt == [given |-> FALSE, bytes |-> << >>]
GivenSalt(b) == [given |-> TRUE, bytes |-> b]

\* Python truth value of an optional bytes: None and b"" are false.
Truthy(arg) == arg.given /\ arg.bytes # << >>

AESEncryptor(password, salt, random16) ==
    LET s == IF Truthy(salt) THEN salt.bytes ELSE random16
    IN [salt |-> s, key |-> PBKDF2(str_encode(password), s, KeyLen)]

encrypt(self, text, nonce) ==
    LET r == encrypt_and_digest(self.key, nonce, str_encode(text))
        encrypted == nonce \o r.tag \o r.ciphertext
    IN bytes_decode(b64encode(encrypted)).val

\* Variant: the slices of a 12-byte nonce, data[:12], data[12:28], data[28:].
decrypt_nonce12(self, encrypted_text) ==
    LET d == b64decode(str_encode(encrypted_text))
    IN IF d.kind = "raise" THEN d
       ELSE LET data == d.val
                nonce == Slice(data, 1, Min(12, Len(data)))
                tag == Slice(data, 13, Min(12 + TagLen, Len(data)))
                ciphertext == Slice(data, 12 + TagLen + 1, Len(data))
                p == decrypt_and_verify(self.key, nonce, ciphertext, tag)
            IN IF p.kind = "raise" THEN p ELSE bytes_decode(p.val)

decrypt(self, encrypted_text) ==
    LET d == b64decode(str_encode(encrypted_text))
    IN IF d.kind = "raise" THEN d
       ELSE LET data == d.val
                nonce == Slice(data, 1, Min(NonceLen, Len(data)))
                tag == Slice(data, NonceLen + 1, Min(NonceLen + TagLen, Len(data)))
                ciphertext == Slice(data, NonceLen + TagLen + 1, Len(data))
                p == decrypt_and_verify(self.key, nonce, ciphertext, tag)
            IN IF p.kind = "raise" THEN p ELSE bytes_decode(p.val)


(***************************************************************************)
(* Input domains and bounds of the model.                                  *)
(***************************************************************************)
DbFiles == {"passwords.db", "other.db"}

\* master passphrases typed at the prompt: "" and "p"
Passphrases == {<< >>, <<112>>}

\* values get_random_bytes(16) may return
SaltChoices == {[i \in 1..SaltLen |-> 17], [i \in 1..SaltLen |-> (7 * i) % 256]}

\* nonces AES.new(key, AES.MODE_GCM) may draw
NonceChoices == {[i \in 1..NonceLen |-> 0], [i \in 1..NonceLen |-> (250 + i) % 256]}

\* the nonces the two encrypt calls of one save draw
NoncePairs == {<<[i \in 1..NonceLen |-> 0], [i \in 1..NonceLen |-> (250 + i) % 256]>>}

\* service names "a" and "b"
Services == {<<97>>, <<98>>}

\* (login, password) pairs given to save: ("", U+0436) and ("a", "")
Credentials == { << << >>, <<1078>> >>, << <<97>>, << >> >> }

\* environment tampering: the (position, replacement character) pairs tried,
\* "A" for the first character and "!" for the 43rd
TamperEdits == {<<1, 65>>, <<43, 33>>}

MaxOpens == 2
MaxSaves == 2
MaxTampers == 1
MaxAttempts == 2

(***************************************************************************)
(* The record store: sqlite3 table passwords(service PRIMARY KEY, login,   *)
(* password).  A table is a set of rows; a connection works on its own     *)
(* view of the table and commit makes the view durable.                    *)
(***************************************************************************)
Row(service, login, password) ==
    [service |-> service, login |-> login, password |-> password]

\* Variant: the new row is added and the old one stays.
insert_only(rows, row) == rows \cup {row}

\* Variant: the statement empties the table before it inserts.
insert_into_emptied(rows, row) == {row}

\* INSERT OR REPLACE INTO passwords: the row with the same primary key goes
insert_or_replace(rows, row) ==
    {r \in rows : r.service # row.service} \cup {row}

\* Variant: DELETE FROM passwords without the WHERE clause.
delete_all(rows, service) == {}

\* DELETE FROM passwords WHERE service = ?
delete_where(rows, service) == {r \in rows : r.service # service}

\* Variant: a statement on a closed connection runs like on an open one.
execute_unguarded(connection, result) == result

\* cursor.execute(...): sqlite3.ProgrammingError on a closed connection,
\* otherwise the outcome of the statement
cursor_execute(connection, result) ==
    IF connection.state = "closed" THEN Raise("sqlite3.ProgrammingError") ELSE result

\* Variant: no commit, the database file keeps what it held.
commit_skipped(durable, view) == durable

\* conn.commit(): the rows the database file holds afterwards
conn_commit(durable, view) == view

\* str comparison of SQLite's BINARY collation on the UTF-8 bytes
RECURSIVE BytesLess(_, _)
BytesLess(a, b) ==
    IF a = << >> THEN b # << >>
    ELSE IF b = << >> THEN FALSE
    ELSE IF Head(a) # Head(b) THEN Head(a) < Head(b)
    ELSE BytesLess(Tail(a), Tail(b))

\* SELECT service FROM passwords ORDER BY service
RECURSIVE OrderBy(_)
OrderBy(rows) ==
    IF rows = {} THEN << >>
    ELSE LET first == CHOOSE r \in rows :
                        \A q \in rows :
                            ~BytesLess(str_encode(q.service), str_encode(r.service))
         IN <<first>> \o OrderBy(rows \ {first})

(***************************************************************************)
(* class PasswordStorage: the methods as operators on the object's state.  *)
(***************************************************************************)
NoFile == [exists |-> FALSE, data |-> << >>]
File(content) == [exists |-> TRUE, data |-> content]

WhiteSpace == {32, 9, 10, 13, 11, 12}

\* str.strip()
RECURSIVE strip(_)
strip(s) ==
    IF s = << >> THEN s
    ELSE IF Head(s) \in WhiteSpace THEN strip(Tail(s))
    ELSE IF s[Len(s)] \in WhiteSpace THEN strip(SubSeq(s, 1, Len(s) - 1))
    ELSE s

\* Variant: the comparison's raise is missing, any passphrase passes.
test_password_accepting(hashfile, password_to_test) ==
    IF hashfile.exists THEN ReturnNone ELSE Raise("FileNotFoundError")

\* Variant: a missing hash file is reported like a wrong passphrase.
test_password_missing_as_wrong(hashfile, password_to_test) ==
    IF hashfile.exists
    THEN LET saved_hash == strip(hashfile.data)
             password_to_test_hash == sha256_hexdigest(str_encode(password_to_test))
         IN IF password_to_test_hash # saved_hash THEN Raise("ValueError")
            ELSE ReturnNone
    ELSE Raise("ValueError")

\* _test_password(password_to_test) against the hash file
test_password(hashfile, password_to_test) ==
    IF hashfile.exists
    THEN LET saved_hash == strip(hashfile.data)
             password_to_test_hash == sha256_hexdigest(str_encode(password_to_test))
         IN IF password_to_test_hash # saved_hash THEN Raise("ValueError")
            ELSE ReturnNone
    ELSE Raise("FileNotFoundError")

\* Variant: a field that does not decrypt is treated like a missing record.
get_swallowing(self_crypto, rows, service) ==
    IF \E r \in rows : r.service = service
    THEN LET row == CHOOSE r \in rows : r.service = service
             login == decrypt(self_crypto, row.login)
             password == decrypt(self_crypto, row.password)
         IN IF login.kind = "raise" \/ password.kind = "raise" THEN ReturnNone
            ELSE Return(<<login.val, password.val>>)
    ELSE ReturnNone

\* Variant: every row of the table is decrypted to find the one asked for.
get_scanning(self_crypto, rows, service) ==
    IF \E r \in rows : decrypt(self_crypto, r.login).kind = "raise"
                          \/ decrypt(self_crypto, r.password).kind = "raise"
    THEN Raise("ValueError")
    ELSE IF \E r \in rows : r.service = service
    THEN LET row == CHOOSE r \in rows : r.service = service
         IN Return(<<decrypt(self_crypto, row.login).val,
                     decrypt(self_crypto, row.password).val>>)
    ELSE ReturnNone

\* Variant: the row is indexed without the test for None.
get_unchecked_row(self_crypto, rows, service) ==
    IF \E r \in rows : r.service = service
    THEN LET row == CHOOSE r \in rows : r.service = service
             login == decrypt(self_crypto, row.login)
             password == decrypt(self_crypto, row.password)
         IN IF login.kind = "raise" THEN login
            ELSE IF password.kind = "raise" THEN password
            ELSE Return(<<login.val, password.val>>)
    ELSE Raise("TypeError")

\* get(service) on the connection's view
get(self_crypto, rows, service) ==
    IF \E r \in rows : r.service = service
    THEN LET row == CHOOSE r \in rows : r.service = service
             login == decrypt(self_crypto, row.login)
             password == decrypt(self_crypto, row.password)
         IN IF login.kind = "raise" THEN login
            ELSE IF password.kind = "raise" THEN password
            ELSE Return(<<login.val, password.val>>)
    ELSE ReturnNone

\* Variant: ORDER BY service DESC.
list_all_descending(rows) ==
    LET sorted == OrderBy(rows)
    IN [i \in 1..Len(sorted) |-> sorted[Len(sorted) + 1 - i].service]

\* list_all()
list_all(rows) ==
    LET sorted == OrderBy(rows) IN [i \in 1..Len(sorted) |-> sorted[i].service]


(***************************************************************************)
(* State.                                                                  *)
(*   salt_file, hash_file  'vault_salt.bin' and 'master_hash.txt'          *)
(*   dbs                   the database file at each path                  *)
(*   pc                    where the process is: idle (not started),       *)
(*                         creating / verifying (in _setup_crypto),        *)
(*                         unlocked, closed, failed (__init__ raised)      *)
(*   db_file, crypto, conn the PasswordStorage object's fields             *)
(*   salt                  _setup_crypto's local: the salt read            *)
(*   last                  the last call: its name, arguments, outcome     *)
(*                         and the message it printed                      *)
(*   opens, saves, tampers counters that bound the model                   *)
(*   attempts              how many wrong passphrases the loop of the      *)
(*                         current __init__ has read, up to MaxAttempts    *)
(*   expected, session_pw, prev_close, reopen, replaced                    *)
(*                         history: what the sessions of the current chain *)
(*                         of reopenings left per service (a pair, absent, *)
(*                         or unknown), the passphrase of this session,    *)
(*                         the session closed last, whether this session   *)
(*                         reopens it, whether the last call was a save    *)
(*                         onto an existing record                         *)
(*   lab_pc, e_self, e_text, e_nonce, e_out, d_self, d_in, d_out           *)
(*                         one AESEncryptor.encrypt call and one decrypt   *)
(*                         call on its own (SpecCrypto)                    *)
(*   enc_a, enc_b          two AESEncryptor(password, salt) constructions  *)
(*                         on their own (SpecKdf)                          *)
(*   logger, choice, error, main_pc                                        *)
(*                         main() of src/main.py (SpecMain): the LogStorage *)
(*                         object (none, open, closed), the menu choice     *)
(*                         read, the error message printed last ("" for    *)
(*                         none), and where main is                        *)
(*   word_list, theme_word, password_length, filtered_words,               *)
(*   selected_words, gen_pc, gen_out                                       *)
(*                         one call of generate_semantic_password          *)
(*                         (SpecGen): the generator's word list, the       *)
(*                         arguments and locals of the call, where it is   *)
(*                         (called, filling, returned, raised), its outcome *)
(***************************************************************************)
VARIABLES salt_file, hash_file, dbs, pc, db_file, crypto, conn, salt, last,
          opens, saves, tampers, attempts, expected, session_pw, prev_close,
          reopen, replaced, lab_pc, e_self, e_text, e_nonce, e_out, d_self, d_in, d_out,
          enc_a, enc_b, logger, choice, error, main_pc,
          word_list, theme_word, password_length, filtered_words,
          selected_words, gen_pc, gen_out

files == <<salt_file, hash_file>>
persisted == <<salt_file, hash_file, dbs>>
object == <<db_file, crypto, conn, salt>>
history == <<expected, session_pw, prev_close, reopen>>
counters == <<opens, saves, tampers>>
lab == <<lab_pc, e_self, e_text, e_nonce, e_out, d_self, d_in, d_out>>
vault == <<salt_file, hash_file, dbs, pc, db_file, crypto, conn, salt, last,
           opens, saves, tampers, attempts, expected, session_pw, prev_close,
           reopen, replaced>>
kdf == <<enc_a, enc_b>>
app == <<logger, choice, error, main_pc>>
gen == <<word_list, theme_word, password_length, filtered_words,
         selected_words, gen_pc, gen_out>>
vars == <<vault, lab, kdf, app, gen>>

\* what the actions of one part leave alone
not_vault == <<lab, kdf, app, gen>>
not_lab == <<vault, kdf, app, gen>>
not_kdf == <<vault, lab, app, gen>>
not_app == <<lab, kdf, gen>>
not_gen == <<vault, lab, kdf, app>>

NoCrypto == [set |-> FALSE, salt |-> << >>, key |-> << >>]
Crypto(enc) == [set |-> TRUE, salt |-> enc.salt, key |-> enc.key]
NoConn == [state |-> "none", rows |-> {}]
NoCall == [op |-> "", args |-> << >>, out |-> ReturnNone, msg |-> ""]
Call(op, args, out, msg) == [op |-> op, args |-> args, out |-> out, msg |-> msg]
Absent == [known |-> TRUE, present |-> FALSE, login |-> << >>, password |-> << >>]
Present(login, password) ==
    [known |-> TRUE, present |-> TRUE, login |-> login, password |-> password]
Unknown == [known |-> FALSE, present |-> FALSE, login |-> << >>, password |-> << >>]
NoClose == [valid |-> FALSE, db_file |-> "", pw |-> << >>]
NoTheme == [given |-> FALSE, word |-> << >>]
GivenTheme(w) == [given |-> TRUE, word |-> w]
NoBuild == [made |-> FALSE, password |-> << >>, salt |-> NoSalt, self |-> NoCrypto]

InitVault ==
    /\ salt_file = NoFile
    /\ hash_file = NoFile
    /\ dbs = [f \in DbFiles |-> [exists |-> FALSE, rows |-> {}]]
    /\ pc = "idle"
    /\ db_file = ""
    /\ crypto = NoCrypto
    /\ conn = NoConn
    /\ salt = << >>
    /\ last = NoCall
    /\ opens = 0 /\ saves = 0 /\ tampers = 0 /\ attempts = 0
    /\ expected = [f \in DbFiles |-> [sv \in Services |-> Absent]]
    /\ session_pw = << >>
    /\ prev_close = NoClose
    /\ reopen = FALSE
    /\ replaced = FALSE

InitLabOff ==
    /\ lab_pc = "off"
    /\ e_self = NoCrypto /\ e_text = << >> /\ e_nonce = << >> /\ e_out = << >>
    /\ d_self = NoCrypto /\ d_in = << >> /\ d_out = ReturnNone

InitKdfOff == enc_a = NoBuild /\ enc_b = NoBuild

InitAppOff == logger = "none" /\ choice = "" /\ error = "" /\ main_pc = "off"

InitGenOff ==
    /\ word_list = << >> /\ theme_word = NoTheme /\ password_length = 0
    /\ filtered_words = << >> /\ selected_words = << >>
    /\ gen_pc = "off" /\ gen_out = ReturnNone

Init == InitVault /\ InitLabOff /\ InitKdfOff /\ InitAppOff /\ InitGenOff

(***************************************************************************)
(* PasswordStorage.__init__ and _setup_crypto.                             *)
(***************************************************************************)
\* __init__ up to the branch of _setup_crypto; the existing-vault branch
\* reads the salt file before its loop.
Open(path) ==
    /\ pc = "idle"
    /\ opens < MaxOpens
    /\ opens' = opens + 1
    /\ db_file' = path
    /\ crypto' = NoCrypto
    /\ conn' = NoConn
    /\ IF dbs[path].exists /\ salt_file.exists
       THEN pc' = "verifying" /\ salt' = salt_file.data
       ELSE pc' = "creating" /\ salt' = << >>
    /\ last' = Call("__init__", <<>>, ReturnNone, "")
    /\ reopen' = (prev_close.valid /\ prev_close.db_file = path)
    /\ expected' = IF prev_close.valid /\ prev_close.db_file = path THEN expected
                   ELSE [expected EXCEPT ![path] =
                           [sv \in Services |-> IF dbs[path].exists THEN Unknown ELSE Absent]]
    /\ replaced' = FALSE
    /\ attempts' = 0
    /\ UNCHANGED <<persisted, saves, tampers, session_pw, prev_close, not_vault>>

\* sqlite3.connect(db_file) and _init_db(): CREATE TABLE IF NOT EXISTS, commit
init_db(db) == [exists |-> TRUE, rows |-> db.rows]

\* One turn of the existing-vault loop: the prompt returns p.  A ValueError
\* is caught and the loop goes on; any other exception leaves __init__; on
\* success __init__ connects and runs _init_db.
EnterPassword(p) ==
    /\ pc = "verifying"
    /\ \E random16 \in SaltChoices :
         crypto' = Crypto(AESEncryptor(p, GivenSalt(salt), random16))
    /\ LET t == test_password(hash_file, p)
       IN IF t.kind # "raise"
          THEN /\ pc' = "unlocked"
               /\ dbs' = [dbs EXCEPT ![db_file] = init_db(dbs[db_file])]
               /\ conn' = [state |-> "open", rows |-> dbs[db_file].rows]
               /\ session_pw' = p
               /\ last' = Call("getpass", <<p>>, t, "")
               /\ UNCHANGED attempts
          ELSE IF IsValueError(t)
          THEN /\ pc' = "verifying"
               /\ last' = Call("getpass", <<p>>, t, "wrong password")
               /\ attempts' = Min(attempts + 1, MaxAttempts)
               /\ UNCHANGED <<dbs, conn, session_pw>>
          ELSE /\ pc' = "failed"
               /\ last' = Call("getpass", <<p>>, t, "")
               /\ UNCHANGED <<dbs, conn, session_pw, attempts>>
    /\ replaced' = FALSE
    /\ UNCHANGED <<files, db_file, salt, counters, expected, prev_close, reopen, not_vault>>

\* Variant: the confirmation is not compared.
passwords_unchecked(password, password2) == FALSE

\* password != password2
passwords_differ(password, password2) == password # password2

\* The new-vault branch: two prompts (p, p2), a fresh salt, the salt and hash
\* files written, then connect and _init_db.
CreatePasswords(p, p2, random16) ==
    /\ pc = "creating"
    /\ IF passwords_differ(p, p2)
       THEN /\ pc' = "failed"
            /\ last' = Call("getpass2", <<p, p2>>, Raise("ValueError"), "")
            /\ UNCHANGED <<persisted, crypto, conn, session_pw>>
       ELSE LET enc == AESEncryptor(p, NoSalt, random16)
            IN /\ crypto' = Crypto(enc)
               /\ salt_file' = File(enc.salt)
               /\ hash_file' = File(sha256_hexdigest(str_encode(p)))
               /\ dbs' = [dbs EXCEPT ![db_file] = init_db(dbs[db_file])]
               /\ conn' = [state |-> "open", rows |-> dbs[db_file].rows]
               /\ pc' = "unlocked"
               /\ session_pw' = p
               /\ last' = Call("getpass2", <<p, p2>>, ReturnNone, "vault created")
    /\ replaced' = FALSE
    /\ UNCHANGED <<db_file, salt, counters, expected, prev_close, reopen, attempts, not_vault>>

(***************************************************************************)
(* save, get, list_all, delete, close.                                     *)
(***************************************************************************)
\* save(service, login, password); nonce1 and nonce2 are the nonces the two
\* encrypt calls draw.
\* On a closed connection cursor.execute raises and the call ends there.
Save(service, login, password, nonce1, nonce2) ==
    /\ pc \in {"unlocked", "closed"}
    /\ LET enc_login == encrypt(crypto, login, nonce1)
           enc_password == encrypt(crypto, password, nonce2)
           view == insert_or_replace(conn.rows, Row(service, enc_login, enc_password))
           executed == cursor_execute(conn, ReturnNone)
       IN IF executed.kind = "raise"
          THEN /\ last' = Call("save", <<service, login, password>>, executed, "")
               /\ replaced' = FALSE
               /\ UNCHANGED <<dbs, conn, saves, expected>>
          ELSE /\ saves < MaxSaves
               /\ saves' = saves + 1
               /\ conn' = [conn EXCEPT !.rows = view]
               /\ dbs' = [dbs EXCEPT ![db_file].rows = conn_commit(dbs[db_file].rows, view)]
               /\ expected' = [expected EXCEPT ![db_file][service] = Present(login, password)]
               /\ last' = Call("save", <<service, login, password>>, ReturnNone, "saved")
               /\ replaced' = (\E r \in conn.rows : r.service = service)
    /\ UNCHANGED <<files, pc, db_file, crypto, salt, opens, tampers,
                   session_pw, prev_close, reopen, attempts, not_vault>>

Get(service) ==
    /\ pc \in {"unlocked", "closed"}
    /\ last' = Call("get", <<service>>,
                    cursor_execute(conn, get(crypto, conn.rows, service)), "")
    /\ replaced' = FALSE
    /\ UNCHANGED <<persisted, pc, object, counters, history, attempts, not_vault>>

ListAll ==
    /\ pc \in {"unlocked", "closed"}
    /\ last' = Call("list_all", << >>,
                    cursor_execute(conn, Return(list_all(conn.rows))), "")
    /\ replaced' = FALSE
    /\ UNCHANGED <<persisted, pc, object, counters, history, attempts, not_vault>>

Delete(service) ==
    /\ pc \in {"unlocked", "closed"}
    /\ LET view == delete_where(conn.rows, service)
           executed == cursor_execute(conn, ReturnNone)
       IN IF executed.kind = "raise"
          THEN /\ last' = Call("delete", <<service>>, executed, "")
               /\ UNCHANGED <<dbs, conn, expected>>
          ELSE /\ conn' = [conn EXCEPT !.rows = view]
               /\ dbs' = [dbs EXCEPT ![db_file].rows = conn_commit(dbs[db_file].rows, view)]
               /\ expected' = [expected EXCEPT ![db_file][service] = Absent]
               /\ last' = Call("delete", <<service>>, ReturnNone, "deleted")
    /\ replaced' = FALSE
    /\ UNCHANGED <<files, pc, db_file, crypto, salt, counters,
                   session_pw, prev_close, reopen, attempts, not_vault>>

\* close(): the connection is closed, what it had not committed is lost
Close ==
    /\ pc = "unlocked"
    /\ pc' = "closed"
    /\ conn' = [state |-> "closed", rows |-> {}]
    /\ last' = Call("close", << >>, ReturnNone, "")
    /\ prev_close' = [valid |-> TRUE, db_file |-> db_file, pw |-> session_pw]
    /\ replaced' = FALSE
    /\ UNCHANGED <<persisted, db_file, crypto, salt, counters, expected,
                   session_pw, reopen, attempts, not_vault>>

\* The process ends (main returns after close, or after __init__ raised).
Exit ==
    /\ pc \in {"closed", "failed"}
    /\ pc' = "idle"
    /\ db_file' = ""
    /\ crypto' = NoCrypto
    /\ conn' = NoConn
    /\ salt' = << >>
    /\ last' = NoCall
    /\ session_pw' = << >>
    /\ reopen' = FALSE
    /\ replaced' = FALSE
    /\ UNCHANGED <<persisted, counters, expected, prev_close, attempts, not_vault>>

(***************************************************************************)
(* The environment, between two runs of the program: the hash file or the  *)
(* salt file is removed, the salt file is emptied, or one character of a   *)
(* stored field is changed.                                                *)
(***************************************************************************)
RemoveSaltFile ==
    /\ pc = "idle"
    /\ 0 < opens /\ opens < MaxOpens
    /\ tampers < MaxTampers
    /\ salt_file.exists
    /\ salt_file' = NoFile
    /\ tampers' = tampers + 1
    /\ prev_close' = NoClose
    /\ replaced' = FALSE
    /\ UNCHANGED <<hash_file, dbs, pc, object, last, opens, saves, expected,
                   session_pw, reopen, attempts, not_vault>>

\* the salt file is left with no bytes in it
TruncateSaltFile ==
    /\ pc = "idle"
    /\ 0 < opens /\ opens < MaxOpens
    /\ tampers < MaxTampers
    /\ salt_file.exists /\ salt_file.data # << >>
    /\ salt_file' = File(<< >>)
    /\ tampers' = tampers + 1
    /\ prev_close' = NoClose
    /\ replaced' = FALSE
    /\ UNCHANGED <<hash_file, dbs, pc, object, last, opens, saves, expected,
                   session_pw, reopen, attempts, not_vault>>

RemoveHashFile ==
    /\ pc = "idle"
    /\ 0 < opens /\ opens < MaxOpens
    /\ tampers < MaxTampers
    /\ hash_file.exists
    /\ hash_file' = NoFile
    /\ tampers' = tampers + 1
    /\ prev_close' = NoClose
    /\ replaced' = FALSE
    /\ UNCHANGED <<salt_file, dbs, pc, object, last, opens, saves, expected,
                   session_pw, reopen, attempts, not_vault>>

TamperField(path, col, i, c) ==
    /\ pc = "idle"
    /\ 0 < opens /\ opens < MaxOpens
    /\ tampers < MaxTampers
    /\ \E r \in dbs[path].rows :
         /\ i <= Len(r[col])
         /\ r[col][i] # c
         /\ dbs' = [dbs EXCEPT ![path].rows =
                       (@ \ {r}) \cup {[r EXCEPT ![col] = [r[col] EXCEPT ![i] = c]]}]
         /\ expected' = [expected EXCEPT ![path][r.service] = Unknown]
    /\ tampers' = tampers + 1
    /\ replaced' = FALSE
    /\ UNCHANGED <<files, pc, object, last, opens, saves,
                   session_pw, prev_close, reopen, attempts, not_vault>>

Next ==
    \/ \E path \in DbFiles : Open(path)
    \/ \E p \in Passphrases : EnterPassword(p)
    \/ \E p \in Passphrases, p2 \in Passphrases, random16 \in SaltChoices :
         CreatePasswords(p, p2, random16)
    \/ \E service \in Services, c \in Credentials,
          nonces \in NoncePairs :
         Save(service, c[1], c[2], nonces[1], nonces[2])
    \/ \E service \in Services : Get(service)
    \/ ListAll
    \/ \E service \in Services : Delete(service)
    \/ Close
    \/ Exit
    \/ RemoveHashFile
    \/ RemoveSaltFile
    \/ TruncateSaltFile
    \/ \E path \in DbFiles, col \in {"login", "password"},
          edit \in TamperEdits :
         TamperField(path, col, edit[1], edit[2])

Spec == Init /\ [][Next]_vars

(***************************************************************************)
(* AESEncryptor on its own: one encrypt call, then one decrypt call on the *)
(* output as it is, on the output with one character changed, or under     *)
(* another encryptor.                                                      *)
(***************************************************************************)
\* plaintexts "", "a" and U+0436: 0, 1 and 2 bytes of UTF-8, so that the
\* encoded field ends in "=", in no padding and in "=="
Texts == {<< >>, <<97>>, <<1078>>}

\* the encryptors AESEncryptor(password) can build
Encryptors ==
    {Crypto(AESEncryptor(p, NoSalt, random16)) : p \in Passphrases, random16 \in SaltChoices}

\* what one character of an encoded field is changed to: the base64
\* alphabet, "=", "!" and U+0436
ChangedChars == {B64Char(v) : v \in 0..63} \cup {PadChar, 33, 1078}

InitCrypto ==
    /\ InitVault
    /\ lab_pc = "start"
    /\ e_self \in {Crypto(AESEncryptor(p, NoSalt, [i \in 1..SaltLen |-> 17])) : p \in Passphrases}
    /\ e_text \in Texts
    /\ e_nonce = << >> /\ e_out = << >>
    /\ d_self = NoCrypto /\ d_in = << >> /\ d_out = ReturnNone
    /\ InitKdfOff /\ InitAppOff /\ InitGenOff

LabEncrypt(nonce) ==
    /\ lab_pc = "start"
    /\ lab_pc' = "encrypted"
    /\ e_nonce' = nonce
    /\ e_out' = encrypt(e_self, e_text, nonce)
    /\ UNCHANGED <<not_lab, e_self, e_text, d_self, d_in, d_out>>

LabDecryptWith(self, encrypted_text) ==
    /\ lab_pc = "encrypted"
    /\ lab_pc' = "decrypted"
    /\ d_self' = self
    /\ d_in' = encrypted_text
    /\ d_out' = decrypt(self, encrypted_text)
    /\ UNCHANGED <<not_lab, e_self, e_text, e_nonce, e_out>>

LabDecrypt == LabDecryptWith(e_self, e_out)

LabDecryptChanged(i, c) ==
    /\ lab_pc = "encrypted"
    /\ i <= Len(e_out)
    /\ e_out[i] # c
    /\ LabDecryptWith(e_self, [e_out EXCEPT ![i] = c])

LabDecryptOther(other) ==
    /\ lab_pc = "encrypted"
    /\ other.key # e_self.key
    /\ LabDecryptWith(other, e_out)

\* strings that are not the output of encrypt: "", "A", "AAAA" (3 bytes),
\* forty "A" (30 bytes) and "not-base64!" of test_aes_decrypt_invalid_data_raises
OtherTexts ==
    {<< >>, <<65>>, <<65, 65, 65, 65>>, [i \in 1..40 |-> 65],
     <<110, 111, 116, 45, 98, 97, 115, 101, 54, 52, 33>>}

LabDecryptText(text) ==
    /\ lab_pc = "encrypted"
    /\ LabDecryptWith(e_self, text)

\* characters outside the base64 alphabet: "!" and the line feed
ForeignChars == {33, 10}

\* the output of encrypt with the character c put in before position i
LabDecryptInserted(i, c) ==
    /\ lab_pc = "encrypted"
    /\ i <= Len(e_out) + 1
    /\ LabDecryptWith(e_self, Slice(e_out, 1, i - 1) \o <<c>> \o Slice(e_out, i, Len(e_out)))

NextCrypto ==
    \/ \E nonce \in NonceChoices : LabEncrypt(nonce)
    \/ LabDecrypt
    \/ \E text \in OtherTexts : LabDecryptText(text)
    \/ \E i \in {1, 23, 45, 49}, c \in ForeignChars : LabDecryptInserted(i, c)
    \/ \E i \in 1..(4 * ((NonceLen + TagLen + 3 + 2) \div 3)), c \in ChangedChars :
         LabDecryptChanged(i, c)
    \/ \E other \in Encryptors : LabDecryptOther(other)

SpecCrypto == InitCrypto /\ [][NextCrypto]_vars

(***************************************************************************)
(* AESEncryptor.__init__ on its own: two constructions, each from a        *)
(* passphrase and an optional salt.                                        *)
(***************************************************************************)
\* salts passed to AESEncryptor: the two of SaltChoices, one that differs from
\* the first in its last byte only, one that differs in its first byte only
KdfSalts ==
    SaltChoices \cup {[i \in 1..SaltLen |-> IF i = SaltLen THEN 18 ELSE 17],
                      [i \in 1..SaltLen |-> IF i = 1 THEN 16 ELSE 17]}

\* the salt argument: None, b"" or 16 bytes
SaltArgs == {NoSalt, GivenSalt(<< >>)} \cup {GivenSalt(s) : s \in KdfSalts}

Build(password, salt_arg, random16) ==
    [made |-> TRUE, password |-> password, salt |-> salt_arg,
     self |-> Crypto(AESEncryptor(password, salt_arg, random16))]

InitKdf == InitVault /\ InitLabOff /\ InitKdfOff /\ InitAppOff /\ InitGenOff

NewFirst(password, salt_arg, random16) ==
    /\ enc_a' = Build(password, salt_arg, random16)
    /\ UNCHANGED <<enc_b, not_kdf>>

NewSecond(password, salt_arg, random16) ==
    /\ enc_b' = Build(password, salt_arg, random16)
    /\ UNCHANGED <<enc_a, not_kdf>>

NextKdf ==
    \/ \E p \in Passphrases, salt_arg \in SaltArgs, random16 \in SaltChoices :
         NewFirst(p, salt_arg, random16)
    \/ \E p \in Passphrases, salt_arg \in SaltArgs, random16 \in SaltChoices :
         NewSecond(p, salt_arg, random16)

SpecKdf == InitKdf /\ [][NextKdf]_vars

(***************************************************************************)
(* main() of src/main.py: the LogStorage and PasswordStorage objects are   *)
(* made, then the menu loop reads a choice, makes the storage call and     *)
(* logs it.  "passwords.db" stands for 'data/passwords.db'.  Whether a     *)
(* LogStorage call raises (the log database cannot be opened or written)   *)
(* is an input of the step that makes it.  Choice 5 (the generator) and    *)
(* the unknown choices make no storage call and are left out.              *)
(***************************************************************************)
\* what an earlier run left at 'data/passwords.db': nothing, an empty vault,
\* or a vault with one record, under the passphrase "p"
EarlierRuns ==
    LET enc == AESEncryptor(<<112>>, NoSalt, [i \in 1..SaltLen |-> 17])
        made == [salt_file |-> File(enc.salt),
                 hash_file |-> File(sha256_hexdigest(str_encode(<<112>>))),
                 exists |-> TRUE, rows |-> {}]
        row == Row(<<97>>, encrypt(enc, << >>, [i \in 1..NonceLen |-> 0]),
                           encrypt(enc, <<1078>>, [i \in 1..NonceLen |-> 0]))
    IN {[salt_file |-> NoFile, hash_file |-> NoFile, exists |-> FALSE, rows |-> {}],
        made,
        [made EXCEPT !.rows = {row}]}

MenuChoices == {"1", "2", "3", "4", "6"}

InitMain ==
    /\ \E run \in EarlierRuns :
         /\ salt_file = run.salt_file
         /\ hash_file = run.hash_file
         /\ dbs = [f \in DbFiles |-> IF f = "passwords.db"
                                      THEN [exists |-> run.exists, rows |-> run.rows]
                                      ELSE [exists |-> FALSE, rows |-> {}]]
    /\ pc = "idle"
    /\ db_file = ""
    /\ crypto = NoCrypto
    /\ conn = NoConn
    /\ salt = << >>
    /\ last = NoCall
    /\ opens = 0 /\ saves = 0 /\ tampers = 0 /\ attempts = 0
    /\ expected = [f \in DbFiles |-> [sv \in Services |-> Unknown]]
    /\ session_pw = << >>
    /\ prev_close = NoClose
    /\ reopen = FALSE
    /\ replaced = FALSE
    /\ InitLabOff /\ InitKdfOff /\ InitGenOff
    /\ logger = "none" /\ choice = "" /\ error = "" /\ main_pc = "start"

\* logger = LogStorage('data/logs.db'), inside the try of lines 25-36
MainLogStorage(raised) ==
    /\ main_pc = "start"
    /\ IF raised
       THEN logger' = "none" /\ error' = "init" /\ main_pc' = "returned"
       ELSE logger' = "open" /\ error' = "" /\ main_pc' = "storage"
    /\ UNCHANGED <<vault, choice, not_app>>

\* storage = PasswordStorage('data/passwords.db')
MainPasswordStorage ==
    /\ main_pc = "storage"
    /\ \/ Open("passwords.db")
       \/ \E p \in Passphrases : EnterPassword(p)
       \/ \E p \in Passphrases, p2 \in Passphrases, random16 \in SaltChoices :
            CreatePasswords(p, p2, random16)

\* logger.log('app_start', 'system'), or the except branch of lines 34-36
\* when PasswordStorage or the log call raised
MainAppStart(raised) ==
    /\ main_pc = "storage"
    /\ pc \in {"unlocked", "failed"}
    /\ IF pc = "failed" \/ raised
       THEN error' = "init" /\ main_pc' = "returned"
       ELSE error' = "" /\ main_pc' = "menu"
    /\ UNCHANGED <<vault, logger, choice, not_app>>

\* choice = input(...).strip(), line 48
MenuInput(c) ==
    /\ main_pc = "menu"
    /\ c = "3" => saves < MaxSaves
    /\ choice' = c
    /\ error' = ""
    /\ main_pc' = "call"
    /\ last' = NoCall
    /\ UNCHANGED <<persisted, pc, object, counters, attempts, history, replaced,
                   logger, not_app>>

\* the storage call of choices 1 to 4
MenuCall ==
    /\ main_pc = "call"
    /\ last = NoCall
    /\ \/ choice = "1" /\ ListAll
       \/ choice = "2" /\ \E service \in Services : Get(service)
       \/ choice = "3" /\ \E service \in Services, c \in Credentials, nonces \in NoncePairs :
                             Save(service, c[1], c[2], nonces[1], nonces[2])
       \/ choice = "4" /\ \E service \in Services : Delete(service)

\* logger.log(...) after the storage call of choices 1 to 4; an exception of
\* the call or of the log is printed by lines 184-185 and the loop goes on
MenuLog(raised) ==
    /\ main_pc = "call"
    /\ choice \in {"1", "2", "3", "4"}
    /\ last # NoCall
    /\ error' = IF last.out.kind = "raise" \/ raised THEN "turn" ELSE ""
    /\ main_pc' = "menu"
    /\ UNCHANGED <<vault, logger, choice, not_app>>

\* choice 6: logger.log('app_exit', 'system') comes first (line 171); if it
\* raises, lines 172-174 are skipped and the loop goes on
MenuExitLog(raised) ==
    /\ main_pc = "call"
    /\ choice = "6"
    /\ IF raised
       THEN error' = "turn" /\ main_pc' = "menu"
       ELSE error' = "" /\ main_pc' = "closing"
    /\ UNCHANGED <<vault, logger, choice, not_app>>

\* KeyboardInterrupt at the prompt, lines 179-183
MenuInterrupt ==
    /\ main_pc = "menu"
    /\ choice' = "^C"
    /\ error' = ""
    /\ main_pc' = "closing"
    /\ UNCHANGED <<vault, logger, not_app>>

\* storage.close()
MainClose ==
    /\ main_pc = "closing"
    /\ Close

\* logger.close() and break
MainLoggerClose ==
    /\ main_pc = "closing"
    /\ pc = "closed"
    /\ logger' = "closed"
    /\ main_pc' = "returned"
    /\ UNCHANGED <<vault, choice, error, not_app>>

NextMain ==
    \/ \E raised \in BOOLEAN : MainLogStorage(raised)
    \/ MainPasswordStorage
    \/ \E raised \in BOOLEAN : MainAppStart(raised)
    \/ \E c \in MenuChoices : MenuInput(c)
    \/ MenuCall
    \/ \E raised \in BOOLEAN : MenuLog(raised)
    \/ \E raised \in BOOLEAN : MenuExitLog(raised)
    \/ MenuInterrupt
    \/ MainClose
    \/ MainLoggerClose

SpecMain == InitMain /\ [][NextMain]_vars

(***************************************************************************)
(* PasswordGenerator.generate_semantic_password of src/generator.py, up to *)
(* the list of selected words; the password string built from them (lines  *)
(* 310-332) is left out.  Words are ASCII.  The scores of                  *)
(* _semantic_distance are exact fractions [num, den]: the words of the     *)
(* model have letter-count vectors of integer length (Isqrt is defined for *)
(* perfect squares only), so that no square root is left in a score.       *)
(***************************************************************************)
\* str.lower()
Lower(word) ==
    [i \in 1..Len(word) |-> IF word[i] \in 65..90 THEN word[i] + 32 ELSE word[i]]

RECURSIVE SumTo(_, _)
SumTo(f, n) == IF n = 0 THEN 0 ELSE f[n] + SumTo(f, n - 1)

Isqrt(x) == CHOOSE k \in 0..x : k * k = x

Max(a, b) == IF a > b THEN a ELSE b

Abs(a) == IF a < 0 THEN 0 - a ELSE a

\* _simple_vector before the division: how often each of 'a'..'z' occurs
LetterCounts(word) ==
    LET w == Lower(word)
    IN [k \in 1..26 |-> Cardinality({i \in 1..Len(w) : w[i] = 96 + k})]

\* _simple_vector: [counts, length], the vector being counts / length when
\* length > 0
simple_vector(word) ==
    LET counts == LetterCounts(word)
    IN [counts |-> counts,
        length |-> Isqrt(SumTo([k \in 1..26 |-> counts[k] * counts[k]], 26))]

\* _cosine_similarity of two such vectors, as a fraction
cosine_similarity(vec1, vec2) ==
    LET dot == SumTo([k \in 1..26 |-> vec1.counts[k] * vec2.counts[k]], 26)
    IN IF vec1.length = 0 \/ vec2.length = 0 THEN [num |-> 0, den |-> 1]
       ELSE [num |-> dot, den |-> vec1.length * vec2.length]

CharSet(word) == {word[i] : i \in 1..Len(word)}

\* _semantic_distance: similarity * 0.5 + length_factor * 0.3 + common_factor * 0.2
semantic_distance(word1, word2) ==
    LET similarity == cosine_similarity(simple_vector(word1), simple_vector(word2))
        longer == Max(Max(Len(word1), Len(word2)), 1)
        length_num == longer - Abs(Len(word1) - Len(word2))
        common_letters == Cardinality(CharSet(word1) \cap CharSet(word2))
        max_letters == Max(Max(Cardinality(CharSet(word1)), Cardinality(CharSet(word2))), 1)
    IN [num |-> 5 * similarity.num * longer * max_letters
                + 3 * length_num * similarity.den * max_letters
                + 2 * common_letters * similarity.den * longer,
        den |-> 10 * similarity.den * longer * max_letters]

\* comparisons of fractions with positive denominators
FracLeq(a, b) == a.num * b.den <= b.num * a.den
FracLess(a, b) == a.num * b.den < b.num * a.den

min_similarity == [num |-> 2, den |-> 10]
max_similarity == [num |-> 7, den |-> 10]
\* max_similarity * 1.2
too_similar_above == [num |-> 84, den |-> 100]

\* [word for word in self.word_list if 3 <= len(word) <= 8], or the whole
\* list when that is empty
FilterWords(words) ==
    LET kept == SelectSeq(words, LAMBDA w : 3 <= Len(w) /\ Len(w) <= 8)
    IN IF kept = << >> THEN words ELSE kept

\* the words of filtered that are not the theme and score within
\* [min_similarity, max_similarity] against it, with their scores
RelatedWords(filtered, theme) ==
    LET scored == [i \in 1..Len(filtered) |->
                      [word |-> filtered[i],
                       similarity |-> semantic_distance(theme, filtered[i])]]
    IN SelectSeq(scored,
                 LAMBDA x : /\ Lower(x.word) # Lower(theme)
                            /\ FracLeq(min_similarity, x.similarity)
                            /\ FracLeq(x.similarity, max_similarity))

\* list.sort(key=lambda x: x[1], reverse=True): stable, equal scores keep
\* their order
RECURSIVE InsertDescending(_, _)
InsertDescending(sorted, x) ==
    IF sorted = << >> THEN <<x>>
    ELSE IF FracLess(Head(sorted).similarity, x.similarity) THEN <<x>> \o sorted
    ELSE <<Head(sorted)>> \o InsertDescending(Tail(sorted), x)

RECURSIVE SortDescending(_, _)
SortDescending(items, sorted) ==
    IF items = << >> THEN sorted
    ELSE SortDescending(Tail(items), InsertDescending(sorted, Head(items)))

\* the for loop of lines 290-302 over the sorted related words
RECURSIVE SelectRelated(_, _, _)
SelectRelated(related, selected, length) ==
    IF related = << >> \/ Len(selected) >= length THEN selected
    ELSE LET word == Head(related).word
             too_similar == \E i \in 1..Len(selected) :
                               FracLess(too_similar_above,
                                        semantic_distance(selected[i], word))
         IN SelectRelated(Tail(related),
                          IF too_similar THEN selected ELSE Append(selected, word),
                          length)

\* "a", "algorithm", and words of four different letters
GenWords ==
    [a |-> <<97>>,
     algorithm |-> <<97, 108, 103, 111, 114, 105, 116, 104, 109>>,
     time |-> <<116, 105, 109, 101>>,
     item |-> <<105, 116, 101, 109>>,
     fire |-> <<102, 105, 114, 101>>,
     wind |-> <<119, 105, 110, 100>>,
     star |-> <<115, 116, 97, 114>>,
     Time |-> <<84, 105, 109, 101>>]

\* the word lists a generator is given
WordLists ==
    {<< >>,
     <<GenWords.a, GenWords.algorithm>>,
     <<GenWords.time, GenWords.item, GenWords.fire, GenWords.wind>>,
     <<GenWords.star, GenWords.fire, GenWords.a, GenWords.time, GenWords.wind>>}

\* theme_word: None or a word
Themes == {NoTheme, GivenTheme(GenWords.time), GivenTheme(GenWords.Time),
           GivenTheme(GenWords.star)}

MaxPasswordLength == 5

InitGen ==
    /\ InitVault /\ InitLabOff /\ InitKdfOff /\ InitAppOff
    /\ word_list \in WordLists
    /\ theme_word \in Themes
    /\ password_length \in 0..MaxPasswordLength
    /\ filtered_words = << >> /\ selected_words = << >>
    /\ gen_pc = "called" /\ gen_out = ReturnNone

\* lines 264-302: the theme is drawn when none is given (secrets.choice
\* raises IndexError on an empty list), the list is filtered, the related
\* words are scored, sorted and selected
GenSelect(choice_index) ==
    /\ gen_pc = "called"
    /\ IF ~theme_word.given /\ word_list = << >>
       THEN /\ gen_pc' = "raised"
            /\ gen_out' = Raise("IndexError")
            /\ UNCHANGED <<theme_word, filtered_words, selected_words>>
       ELSE /\ theme_word.given \/ choice_index \in 1..Len(word_list)
            /\ LET theme == IF theme_word.given THEN theme_word.word
                            ELSE word_list[choice_index]
                   filtered == FilterWords(word_list)
                   related == SortDescending(RelatedWords(filtered, theme), << >>)
               IN /\ theme_word' = GivenTheme(theme)
                  /\ filtered_words' = filtered
                  /\ selected_words' = SelectRelated(related, <<theme>>, password_length)
            /\ gen_pc' = "filling"
            /\ UNCHANGED gen_out
    /\ UNCHANGED <<word_list, password_length, not_gen>>

\* one turn of the while loop of lines 305-308; random_index is what
\* secrets.choice draws
GenFill(random_index) ==
    /\ gen_pc = "filling"
    /\ Len(selected_words) < password_length
    /\ IF filtered_words = << >>
       THEN /\ gen_pc' = "raised"
            /\ gen_out' = Raise("IndexError")
            /\ UNCHANGED selected_words
       ELSE /\ random_index \in 1..Len(filtered_words)
            /\ LET random_word == filtered_words[random_index]
               IN selected_words' =
                    IF \E i \in 1..Len(selected_words) : selected_words[i] = random_word
                    THEN selected_words
                    ELSE Append(selected_words, random_word)
            /\ UNCHANGED <<gen_pc, gen_out>>
    /\ UNCHANGED <<word_list, theme_word, password_length, filtered_words, not_gen>>

\* the while loop is over: the words are returned (line 337)
GenReturn ==
    /\ gen_pc = "filling"
    /\ Len(selected_words) >= password_length
    /\ gen_pc' = "returned"
    /\ gen_out' = Return(selected_words)
    /\ UNCHANGED <<word_list, theme_word, password_length, filtered_words,
                   selected_words, not_gen>>

NextGen ==
    \/ \E choice_index \in 1..MaxPasswordLength : GenSelect(choice_index)
    \/ \E random_index \in 1..MaxPasswordLength : GenFill(random_index)
    \/ GenReturn

SpecGen == InitGen /\ [][NextGen]_vars

C10_MissingVerificationIsFatal ==
    [][(pc = "verifying" /\ ~hash_file.exists /\ last'.op = "getpass") =>
         /\ pc' = "failed"
         /\ last'.out = Raise("FileNotFoundError")
         /\ conn' = NoConn
         /\ UNCHANGED persisted]_vars

\* __init__ failed on the missing hash file of an existing vault
C10_Witness ==
    /\ pc = "failed" /\ last.out = Raise("FileNotFoundError")
    /\ ~hash_file.exists /\ salt_file.exists /\ dbs[db_file].exists

\* C5: once the salt file and the hash file exist, no step of the program
\* (opening any path with any passphrases, save, get, list_all, delete,
\* close) changes either file.
C5_SaltAndVerificationWrittenOnce ==
    [][(salt_file.exists /\ hash_file.exists /\ pc # "idle") =>
         UNCHANGED <<salt_file, hash_file>>]_vars

(***************************************************************************)
(* Properties of the record operations.                                    *)
(***************************************************************************)
\* what get is to return for a service the history knows about
Stored(e) == IF e.present THEN Return(<<e.login, e.password>>) ELSE ReturnNone

\* C2: in a session that reopens the vault closed last with the same
\* passphrase, get(service) returns the (login, password) pair of the last
\* save for the service not followed by a delete, and None when there is none.
C2_SavedRecordsSurviveReopen ==
    [][(/\ pc = "unlocked" /\ reopen /\ session_pw = prev_close.pw
        /\ last'.op = "get"
        /\ expected[db_file][last'.args[1]].known)
         => last'.out = Stored(expected[db_file][last'.args[1]])]_vars

\* after a reopen, get returned a pair that an earlier session had saved
C2_Witness ==
    /\ pc = "unlocked" /\ reopen /\ session_pw = prev_close.pw /\ saves = 1
    /\ last.op = "get" /\ last.out.kind = "return"
    /\ expected[db_file][last.args[1]].present
    /\ last.out = Stored(expected[db_file][last.args[1]])

\* C3: after a save onto a service that already has a record, the table
\* holds exactly one row for the service, get returns the pair just saved
\* and list_all names the service exactly once.
C3_SaveIsUpsert ==
    (last.op = "save" /\ replaced) =>
        LET x == last.args[1]
            names == list_all(conn.rows)
        IN /\ Cardinality({r \in conn.rows : r.service = x}) = 1
           /\ get(crypto, conn.rows, x) = Return(<<last.args[2], last.args[3]>>)
           /\ Cardinality({i \in DOMAIN names : names[i] = x}) = 1

\* a second save onto the same service wrote another pair over the first
C3_Witness ==
    /\ last.op = "save" /\ replaced /\ saves = 2 /\ opens = 1
    /\ expected[db_file][last.args[1]] = Present(<<97>>, << >>)
    /\ Cardinality(conn.rows) = 1

\* the tag stored in a field is the tag of its nonce and ciphertext under key
Authentic(key, field) ==
    LET d == b64decode(str_encode(field))
    IN /\ d.kind = "return"
       /\ Len(d.val) >= NonceLen + TagLen
       /\ SubSeq(d.val, NonceLen + 1, NonceLen + TagLen) =
              GcmTag(key, SubSeq(d.val, 1, NonceLen),
                     SubSeq(d.val, NonceLen + TagLen + 1, Len(d.val)))

\* C6: get on a service whose stored login or password field does not
\* authenticate under the session's key raises an exception; it returns
\* neither a pair nor None.
C6_UnreadableRecordRaises ==
    (/\ last.op = "get"
     /\ \E r \in conn.rows :
           /\ r.service = last.args[1]
           /\ ~(Authentic(crypto.key, r.login) /\ Authentic(crypto.key, r.password)))
      => last.out.kind = "raise"

\* get raised on a record with a changed password field and an intact login
C6_Witness ==
    /\ last.op = "get" /\ last.out.kind = "raise"
    /\ \E r \in conn.rows :
          /\ r.service = last.args[1]
          /\ Authentic(crypto.key, r.login)
          /\ ~Authentic(crypto.key, r.password)

(***************************************************************************)
(* Properties of AESEncryptor.encrypt and decrypt.                         *)
(***************************************************************************)
\* C7: decrypt under the same key of an encrypt output with any single
\* character changed raises; it never returns a plaintext.
C7_ChangedFieldFails ==
    (lab_pc = "decrypted" /\ d_self = e_self /\ d_in # e_out) => d_out.kind = "raise"

\* C8: decrypt of an encrypt output under an encryptor with another key
\* raises ValueError (the MAC check) and returns no plaintext.
C8_WrongKeyFails ==
    (lab_pc = "decrypted" /\ d_self.key # e_self.key) => d_out = Raise("ValueError")

\* an encrypt output was given to decrypt under another key
C8_Witness ==
    lab_pc = "decrypted" /\ d_self.key # e_self.key /\ d_in = e_out /\ e_text # << >>

\* C9: decrypt of an encrypt output under the same key returns the text that
\* was encrypted; the output is ASCII text whose base64 decoding splits at
\* bytes 16 and 32 into the nonce drawn, the tag and the ciphertext.
C9_RoundTrip ==
    /\ (lab_pc = "encrypted" =>
          LET d == b64decode(str_encode(e_out))
              r == encrypt_and_digest(e_self.key, e_nonce, str_encode(e_text))
          IN /\ \A i \in 1..Len(e_out) : e_out[i] < 128
             /\ d.kind = "return"
             /\ Slice(d.val, 1, NonceLen) = e_nonce
             /\ Slice(d.val, NonceLen + 1, NonceLen + TagLen) = r.tag
             /\ Slice(d.val, NonceLen + TagLen + 1, Len(d.val)) = r.ciphertext)
    /\ ((lab_pc = "decrypted" /\ d_self = e_self /\ d_in = e_out) =>
          d_out = Return(e_text))

\* the empty string and a two-byte character went through encrypt and decrypt
C9_Witness ==
    /\ lab_pc = "decrypted" /\ d_self = e_self /\ d_in = e_out
    /\ e_text = <<1078>> /\ d_out = Return(<<1078>>)

(***************************************************************************)
(* Properties of the new-vault branch and of the salt file.                *)
(***************************************************************************)
\* C11: when the database exists and the salt file is missing, __init__
\* does not unlock and writes neither a new salt file nor the hash file.
C11_MissingSaltIsFatal ==
    [][(pc \in {"creating", "verifying"} /\ dbs[db_file].exists /\ ~salt_file.exists) =>
         (pc' # "unlocked" /\ UNCHANGED <<salt_file, hash_file>>)]_vars

\* C12: in the new-vault branch, a confirmation that differs from the
\* passphrase makes __init__ raise ValueError: no salt file, hash file or
\* database is written, no connection is opened, no encryptor is kept.
C12_MismatchCreatesNothing ==
    [][(pc = "creating" /\ last'.op = "getpass2" /\ last'.args[1] # last'.args[2]) =>
         /\ pc' = "failed"
         /\ last'.out = Raise("ValueError")
         /\ conn' = NoConn /\ crypto' = NoCrypto
         /\ UNCHANGED persisted]_vars

\* the two passphrases differed on a path where nothing existed yet
C12_Witness ==
    /\ pc = "failed" /\ last.op = "getpass2" /\ last.args[1] # last.args[2]
    /\ ~salt_file.exists /\ ~hash_file.exists /\ ~dbs[db_file].exists

\* C13: right after the new-vault branch succeeded, the salt file holds the
\* salt of the session's encryptor, the hash file holds the SHA-256 hex
\* digest of the passphrase and list_all returns no service.
C13_NewVaultIsConsistentAndEmpty ==
    (pc = "unlocked" /\ last.op = "getpass2") =>
        /\ salt_file = File(crypto.salt)
        /\ hash_file = File(sha256_hexdigest(str_encode(session_pw)))
        /\ list_all(conn.rows) = << >>

(***************************************************************************)
(* Properties of the closed and unlocked states.                           *)
(***************************************************************************)
\* C14: after close, save, get, list_all and delete each raise
\* (sqlite3.ProgrammingError), return nothing and change neither the
\* database nor the salt and hash files.
C14_CallsAfterCloseFail ==
    [][(pc = "closed" /\ last'.op \in {"save", "get", "list_all", "delete"}) =>
         /\ last'.out = Raise("sqlite3.ProgrammingError")
         /\ pc' = "closed"
         /\ UNCHANGED <<persisted, conn>>]_vars

\* save was called on the closed vault
C14_Witness ==
    pc = "closed" /\ last.op = "save" /\ last.out.kind = "raise"

\* C15: in the closed state the object holds no key.
C15_KeyDiscardedOnClose == pc = "closed" => ~crypto.set

\* C16: no session is unlocked with the empty passphrase.
C16_NoEmptyPassphrase == pc = "unlocked" => session_pw # << >>

\* a stored record one of whose fields does not authenticate under the key
Damaged(r) == ~(Authentic(crypto.key, r.login) /\ Authentic(crypto.key, r.password))

\* C17: while another service's record is damaged, get returns the saved
\* pair of a service whose record is intact, list_all returns the names of
\* all records, and save and delete succeed and take effect.
C17_DamageStaysLocal ==
    pc = "unlocked" =>
      LET x == last.args[1]
          others == \E r \in conn.rows : r.service # x /\ Damaged(r)
      IN /\ (last.op = "get" /\ expected[db_file][x].known) =>
               (last.out = Stored(expected[db_file][x]) \/ ~others)
         /\ last.op = "list_all" =>
               \/ /\ last.out.kind = "return"
                  /\ {last.out.val[i] : i \in DOMAIN last.out.val} =
                        {r.service : r \in conn.rows}
               \/ ~(\E r \in conn.rows : Damaged(r))
         /\ last.op = "save" =>
               \/ /\ last.out = ReturnNone
                  /\ dbs[db_file].rows = conn.rows
                  /\ \E r \in conn.rows : r.service = x
                  /\ expected[db_file][x] = Present(last.args[2], last.args[3])
               \/ ~others
         /\ last.op = "delete" =>
               \/ /\ last.out = ReturnNone
                  /\ dbs[db_file].rows = conn.rows
                  /\ ~(\E r \in conn.rows : r.service = x)
               \/ ~others

\* get returned the pair of one service while the other's record is damaged
C17_Witness ==
    /\ pc = "unlocked" /\ last.op = "get" /\ last.out.kind = "return"
    /\ expected[db_file][last.args[1]].present
    /\ \E r \in conn.rows : r.service # last.args[1] /\ Damaged(r)

\* C18: get on a service without a row returns None and does not raise.
C18_GetAbsentReturnsNone ==
    (pc = "unlocked" /\ last.op = "get"
       /\ ~(\E r \in conn.rows : r.service = last.args[1]))
      => last.out = ReturnNone

\* get on a service whose record was saved and then deleted
C18_Witness ==
    /\ pc = "unlocked" /\ last.op = "get" /\ last.out = ReturnNone
    /\ opens = 1 /\ saves = 1 /\ conn.rows = {}

\* C19: delete(x) returns normally, removes the row of x and no other row,
\* commits, after which get(x) returns None and list_all omits x; when x has
\* no row the table and the files stay as they were.
C19_DeleteRemovesOrNoOp ==
    [][(pc = "unlocked" /\ last'.op = "delete") =>
         LET x == last'.args[1]
             names == list_all(conn'.rows)
         IN /\ last'.out = ReturnNone
            /\ conn'.rows = {r \in conn.rows : r.service # x}
            /\ dbs'[db_file].rows = conn'.rows
            /\ get(crypto, conn'.rows, x) = ReturnNone
            /\ \A i \in DOMAIN names : names[i] # x
            /\ (~(\E r \in conn.rows : r.service = x) => UNCHANGED <<persisted, conn>>)]_vars

\* the one saved record was deleted
C19_Witness ==
    /\ pc = "unlocked" /\ last.op = "delete" /\ last.out = ReturnNone
    /\ opens = 1 /\ saves = 1 /\ conn.rows = {} /\ dbs[db_file].rows = {}

\* a < b in the order of code points
RECURSIVE StrLess(_, _)
StrLess(a, b) ==
    IF b = << >> THEN FALSE
    ELSE IF a = << >> THEN TRUE
    ELSE IF a[1] # b[1] THEN a[1] < b[1]
    ELSE StrLess(Tail(a), Tail(b))

\* C20: list_all returns the service names that have a row, each once, in
\* ascending order, also when stored fields are unreadable.
C20_ListIsSortedAndExact ==
    (pc = "unlocked" /\ last.op = "list_all") =>
        LET names == last.out.val
        IN /\ last.out.kind = "return"
           /\ {names[i] : i \in DOMAIN names} = {r.service : r \in conn.rows}
           /\ Len(names) = Cardinality({r.service : r \in conn.rows})
           /\ \A i, j \in DOMAIN names : i < j => StrLess(names[i], names[j])

\* both services listed in order while a stored field is unreadable
C20_Witness ==
    /\ pc = "unlocked" /\ last.op = "list_all"
    /\ last.out = Return(<< <<97>>, <<98>> >>)
    /\ \E r \in conn.rows : Damaged(r)

IsBase64(s) ==
    /\ Len(s) % 4 = 0
    /\ \A i \in 1..Len(s) :
         \/ s[i] \in {B64Char(v) : v \in 0..63}
         \/ /\ s[i] = PadChar
            /\ i >= Len(s) - 1
            /\ \A j \in i..Len(s) : s[j] = PadChar

\* the number of bytes a base64 string stands for
B64Bytes(s) ==
    3 * (Len(s) \div 4) - Cardinality({i \in 1..Len(s) : s[i] = PadChar})

\* C22: decrypt of a string that is not valid base64, or that stands for
\* fewer bytes than nonce and tag, raises, with an exception other than the
\* ValueError of a failed authentication, and returns no plaintext.
C22_MalformedInputIsDistinct ==
    (lab_pc = "decrypted" /\ (~IsBase64(d_in) \/ B64Bytes(d_in) < NonceLen + TagLen))
      => (d_out.kind = "raise" /\ d_out # Raise("ValueError"))

(***************************************************************************)
(* Properties of main() and its logger.                                    *)
(***************************************************************************)
\* C23: main returns only after the vault was closed or PasswordStorage itself
\* raised; a turn of the menu with choice 6 goes on to close the vault; a
\* turn with choice 1 to 4 ends only after its storage call was made.
C23_LoggerFailureAbortsNothing ==
    [][/\ main_pc' = "returned" => pc' \in {"closed", "failed"}
       /\ (main_pc = "call" /\ choice = "6" /\ main_pc' # "call") => main_pc' = "closing"
       /\ (main_pc = "call" /\ choice \in {"1", "2", "3", "4"} /\ main_pc' # "call") =>
             last.op \in {"list_all", "get", "save", "delete"}]_vars

(***************************************************************************)
(* Properties of the semantic password generator.                          *)
(***************************************************************************)
\* C24: no call of generate_semantic_password raises, the while loop is never
\* left with no word to draw that is not selected already (so that it ends,
\* secrets.choice being uniform), and the list of words returned has
\* password_length words.
C24_SemanticReturnsLengthWords ==
    /\ gen_pc # "raised"
    /\ (gen_pc = "filling" /\ Len(selected_words) < password_length) =>
          \E i \in 1..Len(filtered_words) :
             \A j \in 1..Len(selected_words) : selected_words[j] # filtered_words[i]
    /\ gen_pc = "returned" =>
          (gen_out.kind = "return" /\ Len(gen_out.val) = password_length)

C26_OtherVaultKeepsItsGate ==
    [][(/\ pc \in {"creating", "verifying", "unlocked", "closed"}
        /\ \E other \in DbFiles \ {db_file} :
              dbs[other].exists /\ dbs[other].rows # {}) =>
         UNCHANGED <<salt_file, hash_file>>]_vars

(***************************************************************************)
(* Properties of what the record operations leave alone.                   *)
(***************************************************************************)
\* the rows of a table for the services other than service
OtherRows(rows, service) == {r \in rows : r.service # service}

\* C27: save(s, ...) and delete(s) leave the rows of every service other
\* than s as they are, in the connection and in every database file; get and
\* list_all leave the connection, the database files, the salt file and the
\* hash file as they are.
C27_OnlyTheAddressedService ==
    [][(pc \in {"unlocked", "closed"} /\ pc' = pc) =>
         /\ last'.op \in {"save", "delete"} =>
               /\ OtherRows(conn'.rows, last'.args[1]) = OtherRows(conn.rows, last'.args[1])
               /\ \A path \in DbFiles :
                     OtherRows(dbs'[path].rows, last'.args[1])
                        = OtherRows(dbs[path].rows, last'.args[1])
         /\ last'.op \in {"get", "list_all"} => UNCHANGED <<persisted, conn>>]_vars

\* a save or a delete has run while the table held a row of another service
C27_Witness ==
    /\ pc = "unlocked"
    /\ last.op \in {"save", "delete"}
    /\ last.out.kind = "none"
    /\ OtherRows(conn.rows, last.args[1]) # {}

(***************************************************************************)
(* Properties of the key an existing vault is unlocked with.               *)
(***************************************************************************)
\* C28: a session unlocked by the existing-vault loop holds the bytes of the
\* salt file as its salt and the key PBKDF2 derives from the passphrase
\* entered and those bytes.
C28_KeyFromStoredSalt ==
    (pc = "unlocked" /\ last.op = "getpass") =>
       /\ crypto.salt = salt_file.data
       /\ crypto.key = PBKDF2(str_encode(session_pw), salt_file.data, KeyLen)

=============================================================================
